---------------------------- MODULE Spec2Model ----------------------------
(***************************************************************************)
(* The transaction ledger of rust-transactions-test: accounts that apply   *)
(* deposits, withdrawals, disputes, resolves and chargebacks               *)
(* (src/src/accounts/account.rs), the account map with its two logs        *)
(* (src/src/accounts/account_map.rs) and the entry point log_transaction   *)
(* (src/src/accounts/mod.rs), driven by the read loop of src/src/main.rs.  *)
(*                                                                         *)
(* Balances are f32 in the source.  The model keeps f32 arithmetic on the  *)
(* integer-valued floats: a value is an integer, and every addition and    *)
(* subtraction is rounded to the nearest float of 24 significant bits,     *)
(* ties to even, as IEEE 754 binary32 does.                                *)
(***************************************************************************)
EXTENDS Integers, Sequences, FiniteSets, TLC

(***************************************************************************)
(* Bounds of the model.                                                    *)
(***************************************************************************)
NumClients == 2        \* clients of the general run
MaxTx == 2             \* transaction ids of the general run
MaxSteps == 3          \* transactions of the general run
MaxAccountTx == 3      \* ids a dispute, resolve or chargeback may name
MaxAccountSteps == 4   \* transactions of the one-client run
MaxDeepSteps == 5      \* transactions of the long one-client run
MaxTestSteps == 5      \* transactions of a run over the unit tests' records

(***************************************************************************)
(* f32                                                                     *)
(***************************************************************************)
F32_MANTISSA_DIGITS == 24

RECURSIVE Pow2(_)
Pow2(k) == IF k = 0 THEN 1 ELSE 2 * Pow2(k - 1)

\* below this magnitude every integer is an f32
F32Exact == Pow2(F32_MANTISSA_DIGITS)

\* the spacing of the floats around magnitude m (1 below 2^24)
RECURSIVE F32Ulp(_)
F32Ulp(m) == IF m < F32Exact THEN 1 ELSE 2 * F32Ulp(m \div 2)

\* the neighbour of lo + r (0 <= r < q, lo a multiple of q) among the floats
\* lo and lo + q: the nearest, and the one with the even mantissa on a tie
F32Nearest(lo, r, q) ==
    IF 2 * r < q THEN lo
    ELSE IF 2 * r > q THEN lo + q
    ELSE IF (lo \div q) % 2 = 0 THEN lo ELSE lo + q

F32RoundAbs(m, q) == F32Nearest((m \div q) * q, m % q, q)

\* round to nearest, ties to even
F32Round(n) ==
    IF n < 0 THEN 0 - F32RoundAbs(0 - n, F32Ulp(0 - n))
    ELSE F32RoundAbs(n, F32Ulp(n))

F32Add(a, b) == F32Round(a + b)
F32Sub(a, b) == F32Round(a - b)

(***************************************************************************)
(* Option<T>: None is the empty sequence, Some(x) the sequence <<x>>.      *)
(***************************************************************************)
None == << >>
Some(x) == << x >>
unwrap(o) == o[1]

(***************************************************************************)
(* TransactionType and Transaction                                         *)
(***************************************************************************)
DEPOSIT == "deposit"
WITHDRAWAL == "withdrawal"
DISPUTE == "dispute"
RESOLVE == "resolve"
CHARGEBACK == "chargeback"

TransactionType == {DEPOSIT, WITHDRAWAL, DISPUTE, RESOLVE, CHARGEBACK}

Transaction(ty, client, tx, amount) ==
    [transaction_type |-> ty, client |-> client, tx |-> tx, amount |-> amount]

(***************************************************************************)
(* Account                                                                 *)
(***************************************************************************)
Account_new(id) ==
    [id |-> id,
     transaction_log |-> << >>,
     amount_available |-> 0,
     amount_held |-> 0,
     total |-> 0,
     locked |-> FALSE]

\* the antecedent type a caller of extract_transaction looks for;
\* "panic" for a deposit or a withdrawal
allowed_category(transaction_type) ==
    CASE transaction_type = RESOLVE -> DISPUTE
      [] transaction_type = CHARGEBACK -> DISPUTE
      [] transaction_type = DISPUTE -> DEPOSIT
      [] OTHER -> "panic"

\* mutant: the type of the logged transaction is not looked at
matches_any_type(transactions, tx, category) ==
    {i \in 1..Len(transactions) : transactions[i].tx = tx}

\* the positions of the logged transactions with this tx and this type
matches(transactions, tx, category) ==
    {i \in 1..Len(transactions) :
        /\ transactions[i].tx = tx
        /\ transactions[i].transaction_type = category}

\* the first of them, as an Option
first_match(transactions, hits) ==
    IF hits = {} THEN None
    ELSE Some(transactions[CHOOSE i \in hits : \A j \in hits : i <= j])

extract_transaction(transactions, tx, transaction_type) ==
    first_match(transactions,
                matches(transactions, tx, allowed_category(transaction_type)))

\* results of Account::add_transaction
Ok(account) == [kind |-> "Ok", msg |-> "", account |-> account]
Err(msg, account) == [kind |-> "Err", msg |-> msg, account |-> account]
Panic(account) == [kind |-> "Panic", msg |-> "panic", account |-> account]

ERR_LOCKED == "account is locked"
ERR_NO_DISPUTE == "no dispute found for the chargeback"
ERR_HELD == "not enough held funds for the chargeback"
ERR_FUNDS == "not enough funds for withdrawal"

\* self.transaction_log.push(transaction)
\* mutant: the transaction is put at the front of the history
push_front(self, transaction) ==
    [self EXCEPT !.transaction_log = << transaction >> \o @]

push(self, transaction) ==
    [self EXCEPT !.transaction_log = Append(@, transaction)]

\* mutant: the chargeback forgets self.total -= amount
chargeback_funds_keeps_total(self, transaction, a) ==
    IF self.amount_held < a THEN Err(ERR_HELD, self)
    ELSE Ok(push([self EXCEPT
                    !.amount_held = F32Sub(@, a),
                    !.locked = TRUE], transaction))

\* mutant: the chargeback forgets self.locked = true
chargeback_funds_no_lock(self, transaction, a) ==
    IF self.amount_held < a THEN Err(ERR_HELD, self)
    ELSE Ok(push([self EXCEPT
                    !.amount_held = F32Sub(@, a),
                    !.total = F32Sub(@, a)], transaction))

\* mutant: the chargeback does not look at the held funds
chargeback_funds_unchecked(self, transaction, a) ==
    Ok(push([self EXCEPT
               !.amount_held = F32Sub(@, a),
               !.total = F32Sub(@, a),
               !.locked = TRUE], transaction))

\* the chargeback of amount a, the amount of the disputed transaction
chargeback_funds(self, transaction, a) ==
    IF self.amount_held < a THEN Err(ERR_HELD, self)
    ELSE Ok(push([self EXCEPT
                    !.amount_held = F32Sub(@, a),
                    !.total = F32Sub(@, a),
                    !.locked = TRUE], transaction))

\* found: the second lookup, for the transaction the dispute is about
chargeback_found(self, transaction, found) ==
    IF found = None THEN Panic(self)
    ELSE IF unwrap(found).amount = None THEN Panic(self)
    ELSE chargeback_funds(self, transaction, unwrap(unwrap(found).amount))

\* mutant: a chargeback without a dispute is let through
chargeback_dispute_accepts(self, transaction, dispute) ==
    IF dispute = None THEN Ok(self)
    ELSE chargeback_found(self, transaction,
             extract_transaction(self.transaction_log, transaction.tx,
                                 unwrap(dispute).transaction_type))

\* dispute: the first lookup, for the dispute
chargeback_dispute(self, transaction, dispute) ==
    IF dispute = None THEN Err(ERR_NO_DISPUTE, self)
    ELSE chargeback_found(self, transaction,
             extract_transaction(self.transaction_log, transaction.tx,
                                 unwrap(dispute).transaction_type))

chargeback_arm(self, transaction) ==
    chargeback_dispute(self, transaction,
        extract_transaction(self.transaction_log, transaction.tx,
                            transaction.transaction_type))

\* mutant: the deposit forgets self.total += amount
deposit_arm_keeps_total(self, transaction) ==
    IF transaction.amount = None THEN Panic(self)
    ELSE Ok(push([self EXCEPT
                    !.amount_available = F32Add(@, unwrap(transaction.amount))],
                 transaction))

deposit_arm(self, transaction) ==
    IF transaction.amount = None THEN Panic(self)
    ELSE Ok(push([self EXCEPT
                    !.amount_available = F32Add(@, unwrap(transaction.amount)),
                    !.total = F32Add(@, unwrap(transaction.amount))],
                 transaction))

\* mutant: the withdrawal is checked against total, held funds included
withdrawal_arm_counts_held(self, transaction) ==
    IF transaction.amount = None THEN Panic(self)
    ELSE IF unwrap(transaction.amount) > self.total
         THEN Err(ERR_FUNDS, self)
    ELSE Ok(push([self EXCEPT
                    !.amount_available = F32Sub(@, unwrap(transaction.amount)),
                    !.total = F32Sub(@, unwrap(transaction.amount))],
                 transaction))

\* mutant: the withdrawal forgets self.total -= amount
withdrawal_arm_keeps_total(self, transaction) ==
    IF transaction.amount = None THEN Panic(self)
    ELSE IF unwrap(transaction.amount) > self.amount_available
         THEN Err(ERR_FUNDS, self)
    ELSE Ok(push([self EXCEPT
                    !.amount_available = F32Sub(@, unwrap(transaction.amount))],
                 transaction))

withdrawal_arm(self, transaction) ==
    IF transaction.amount = None THEN Panic(self)
    ELSE IF unwrap(transaction.amount) > self.amount_available
         THEN Err(ERR_FUNDS, self)
    ELSE Ok(push([self EXCEPT
                    !.amount_available = F32Sub(@, unwrap(transaction.amount)),
                    !.total = F32Sub(@, unwrap(transaction.amount))],
                 transaction))

\* mutant: the dispute moves the amount its own record carries
dispute_found_own_amount(self, transaction, disputed_transaction) ==
    IF disputed_transaction = None THEN Ok(self)
    ELSE IF unwrap(disputed_transaction).amount = None THEN Panic(self)
    ELSE IF transaction.amount = None
         THEN Ok(push([self EXCEPT
                    !.amount_available =
                        F32Sub(@, unwrap(unwrap(disputed_transaction).amount)),
                    !.amount_held =
                        F32Add(@, unwrap(unwrap(disputed_transaction).amount))],
                 transaction))
    ELSE Ok(push([self EXCEPT
                    !.amount_available = F32Sub(@, unwrap(transaction.amount)),
                    !.amount_held = F32Add(@, unwrap(transaction.amount))],
                 transaction))

\* mutant: a dispute that finds no deposit is kept in the history
dispute_found_logs_noop(self, transaction, disputed_transaction) ==
    IF disputed_transaction = None THEN Ok(push(self, transaction))
    ELSE IF unwrap(disputed_transaction).amount = None THEN Panic(self)
    ELSE Ok(push([self EXCEPT
                    !.amount_available =
                        F32Sub(@, unwrap(unwrap(disputed_transaction).amount)),
                    !.amount_held =
                        F32Add(@, unwrap(unwrap(disputed_transaction).amount))],
                 transaction))

\* mutant: a dispute that finds no deposit is an error
dispute_found_rejects(self, transaction, disputed_transaction) ==
    IF disputed_transaction = None THEN Err(ERR_NO_DISPUTE, self)
    ELSE IF unwrap(disputed_transaction).amount = None THEN Panic(self)
    ELSE Ok(push([self EXCEPT
                    !.amount_available =
                        F32Sub(@, unwrap(unwrap(disputed_transaction).amount)),
                    !.amount_held =
                        F32Add(@, unwrap(unwrap(disputed_transaction).amount))],
                 transaction))

\* disputed_transaction: the lookup of the deposit
dispute_found(self, transaction, disputed_transaction) ==
    IF disputed_transaction = None THEN Ok(self)
    ELSE IF unwrap(disputed_transaction).amount = None THEN Panic(self)
    ELSE Ok(push([self EXCEPT
                    !.amount_available =
                        F32Sub(@, unwrap(unwrap(disputed_transaction).amount)),
                    !.amount_held =
                        F32Add(@, unwrap(unwrap(disputed_transaction).amount))],
                 transaction))

dispute_arm(self, transaction) ==
    dispute_found(self, transaction,
        extract_transaction(self.transaction_log, transaction.tx,
                            transaction.transaction_type))

\* mutant: the resolve forgets self.amount_available += amount
resolve_found_keeps_available(self, transaction, found) ==
    IF found = None THEN Panic(self)
    ELSE IF unwrap(found).amount = None THEN Panic(self)
    ELSE Ok(push([self EXCEPT
                    !.amount_held =
                        F32Sub(@, unwrap(unwrap(found).amount))],
                 transaction))

\* found: the second lookup, for the transaction the dispute is about
resolve_found(self, transaction, found) ==
    IF found = None THEN Panic(self)
    ELSE IF unwrap(found).amount = None THEN Panic(self)
    ELSE Ok(push([self EXCEPT
                    !.amount_available =
                        F32Add(@, unwrap(unwrap(found).amount)),
                    !.amount_held =
                        F32Sub(@, unwrap(unwrap(found).amount))],
                 transaction))

\* mutant: a resolve that finds no dispute is kept in the history
resolve_dispute_logs_noop(self, transaction, logged_dispute) ==
    IF logged_dispute = None THEN Ok(push(self, transaction))
    ELSE resolve_found(self, transaction,
             extract_transaction(self.transaction_log, transaction.tx,
                                 unwrap(logged_dispute).transaction_type))

\* logged_dispute: the first lookup, for the dispute
resolve_dispute(self, transaction, logged_dispute) ==
    IF logged_dispute = None THEN Ok(self)
    ELSE resolve_found(self, transaction,
             extract_transaction(self.transaction_log, transaction.tx,
                                 unwrap(logged_dispute).transaction_type))

resolve_arm(self, transaction) ==
    resolve_dispute(self, transaction,
        extract_transaction(self.transaction_log, transaction.tx,
                            transaction.transaction_type))

\* mutant: the lock is never looked at
lock_check_never(self) == FALSE

\* if self.locked == true { return Err("account is locked") }
lock_check(self) == self.locked = TRUE

Account_add_transaction(self, transaction) ==
    IF transaction.client # self.id THEN Panic(self)
    ELSE IF lock_check(self) THEN Err(ERR_LOCKED, self)
    ELSE CASE transaction.transaction_type = CHARGEBACK ->
                chargeback_arm(self, transaction)
           [] transaction.transaction_type = DEPOSIT ->
                deposit_arm(self, transaction)
           [] transaction.transaction_type = WITHDRAWAL ->
                withdrawal_arm(self, transaction)
           [] transaction.transaction_type = DISPUTE ->
                dispute_arm(self, transaction)
           [] transaction.transaction_type = RESOLVE ->
                resolve_arm(self, transaction)

(***************************************************************************)
(* AccountMap                                                              *)
(***************************************************************************)
AccountMap_new ==
    [accounts |-> << >>,
     total_transaction_log |-> << >>,
     total_error_transaction_log |-> << >>]

\* mutant: the insert drops the other entries of the map
insert_replaces_map(accounts, account_id, account) ==
    [k \in {account_id} |-> account]

\* HashMap::insert
insert(accounts, account_id, account) ==
    [k \in (DOMAIN accounts) \cup {account_id} |->
        IF k = account_id THEN account ELSE accounts[k]]

\* mutant: the account is handed the ledger's accepted log as its history
lookup_account_ledger_history(self, account_id) ==
    IF account_id \in DOMAIN self.accounts
    THEN [self.accounts[account_id] EXCEPT
            !.transaction_log = self.total_transaction_log]
    ELSE [Account_new(account_id) EXCEPT
            !.transaction_log = self.total_transaction_log]

\* the account the transaction is handed to: a clone of the stored one, or a
\* new one
lookup_account(self, account_id) ==
    IF account_id \in DOMAIN self.accounts THEN self.accounts[account_id]
    ELSE Account_new(account_id)

\* the map after an accepted transaction
ok_branch(self, new_state, transaction, account_id) ==
    [self EXCEPT
       !.accounts = insert(@, account_id, new_state),
       !.total_transaction_log = Append(@, transaction)]

\* mutant: a rejected transaction is dropped, not logged
err_branch_drops(self, transaction) == self

\* the map after a rejected transaction
err_branch(self, transaction) ==
    [self EXCEPT !.total_error_transaction_log = Append(@, transaction)]

\* mutant: the account is stored whatever it answered
match_result_stores_rejected(self, transaction, account_id, transaction_result) ==
    CASE transaction_result.kind = "Ok" ->
           [panicked |-> FALSE, result |-> transaction_result,
            map |-> ok_branch(self, transaction_result.account,
                              transaction, account_id)]
      [] transaction_result.kind = "Err" ->
           [panicked |-> FALSE, result |-> transaction_result,
            map |-> [err_branch(self, transaction) EXCEPT
                       !.accounts = insert(@, account_id,
                                           transaction_result.account)]]
      [] OTHER ->
           [panicked |-> TRUE, result |-> transaction_result, map |-> self]

\* what the map becomes for the account's answer: [panicked, map, result]
match_result(self, transaction, account_id, transaction_result) ==
    CASE transaction_result.kind = "Ok" ->
           [panicked |-> FALSE, result |-> transaction_result,
            map |-> ok_branch(self, transaction_result.account,
                              transaction, account_id)]
      [] transaction_result.kind = "Err" ->
           [panicked |-> FALSE, result |-> transaction_result,
            map |-> err_branch(self, transaction)]
      [] OTHER ->
           [panicked |-> TRUE, result |-> transaction_result, map |-> self]

AccountMap_add_transaction(self, transaction, account_id) ==
    match_result(self, transaction, account_id,
                 Account_add_transaction(lookup_account(self, account_id),
                                         transaction))

\* mutant: every transaction is routed to account 1
log_transaction_to_first(current_state, transaction) ==
    AccountMap_add_transaction(
        (IF current_state # None THEN unwrap(current_state) ELSE AccountMap_new),
        transaction, 1)

\* current_state is an Option<AccountMap>
log_transaction(current_state, transaction) ==
    AccountMap_add_transaction(
        (IF current_state # None THEN unwrap(current_state) ELSE AccountMap_new),
        transaction, transaction.client)

(***************************************************************************)
(* The run: main folds the stream of transactions through log_transaction. *)
(***************************************************************************)
VARIABLES
    account_map,   \* main's account_map
    panicked,      \* the process has aborted
    processed,     \* number of calls of log_transaction that returned
    last,          \* the last call: its transaction and the account's answer
    prev           \* account_map as it was before the last call

vars == << account_map, panicked, processed, last, prev >>

NoCall == [transaction |-> None, kind |-> "none", msg |-> ""]

\* let mut account_map = AccountMap::new();
Init ==
    /\ account_map = AccountMap_new
    /\ panicked = FALSE
    /\ processed = 0
    /\ last = NoCall
    /\ prev = AccountMap_new

\* one iteration of main's loop:
\* account_map = log_transaction(Some(account_map), transaction)
Step(transaction) ==
    /\ ~panicked
    /\ \E r \in {log_transaction(Some(account_map), transaction)} :
          /\ panicked' = r.panicked
          /\ account_map' = r.map
          /\ processed' = IF r.panicked THEN processed ELSE processed + 1
          /\ last' = [transaction |-> Some(transaction),
                      kind |-> r.result.kind, msg |-> r.result.msg]
          /\ prev' = account_map

(***************************************************************************)
(* The general run: any client, any transaction id (ids may repeat and may *)
(* belong to another client).                                              *)
(***************************************************************************)
ClientIds == 1..NumClients
TxIds == 1..MaxTx
StreamAmounts == {Some(3)}

Deposit ==
    /\ processed < MaxSteps
    /\ \E c \in ClientIds, tx \in TxIds, a \in StreamAmounts :
          Step(Transaction(DEPOSIT, c, tx, a))

Withdrawal ==
    /\ processed < MaxSteps
    /\ \E c \in ClientIds, tx \in TxIds, a \in StreamAmounts :
          Step(Transaction(WITHDRAWAL, c, tx, a))

Dispute ==
    /\ processed < MaxSteps
    /\ \E c \in ClientIds, tx \in TxIds :
          Step(Transaction(DISPUTE, c, tx, None))

Resolve ==
    /\ processed < MaxSteps
    /\ \E c \in ClientIds, tx \in TxIds :
          Step(Transaction(RESOLVE, c, tx, None))

Chargeback ==
    /\ processed < MaxSteps
    /\ \E c \in ClientIds, tx \in TxIds :
          Step(Transaction(CHARGEBACK, c, tx, None))

Next == Deposit \/ Withdrawal \/ Dispute \/ Resolve \/ Chargeback

Spec == Init /\ [][Next]_vars

(***************************************************************************)
(* The one-client run: a well-formed stream for client 1.  Deposits and    *)
(* withdrawals carry fresh transaction ids (unique within the stream);     *)
(* disputes, resolves and chargebacks name any id.  The amounts reach the  *)
(* magnitudes where f32 rounds, and a deposit or withdrawal row may lack   *)
(* its amount.                                                             *)
(***************************************************************************)
AccountTxIds == 1..MaxAccountTx
AccountAmounts == {Some(3), Some(16777216), None}

IsMoney(t) == t.transaction_type \in {DEPOSIT, WITHDRAWAL}

CountMoney(log) == Cardinality({i \in 1..Len(log) : IsMoney(log[i])})

\* the id of the next deposit or withdrawal of the stream
FreshTx ==
    1 + CountMoney(account_map.total_transaction_log)
      + CountMoney(account_map.total_error_transaction_log)

AccountDeposit(bound) ==
    /\ processed < bound
    /\ \E a \in AccountAmounts : Step(Transaction(DEPOSIT, 1, FreshTx, a))

AccountWithdrawal(bound) ==
    /\ processed < bound
    /\ \E a \in AccountAmounts : Step(Transaction(WITHDRAWAL, 1, FreshTx, a))

AccountDispute(bound, amounts) ==
    /\ processed < bound
    /\ \E tx \in AccountTxIds, a \in amounts :
          Step(Transaction(DISPUTE, 1, tx, a))

AccountResolve(bound) ==
    /\ processed < bound
    /\ \E tx \in AccountTxIds : Step(Transaction(RESOLVE, 1, tx, None))

AccountChargeback(bound) ==
    /\ processed < bound
    /\ \E tx \in AccountTxIds : Step(Transaction(CHARGEBACK, 1, tx, None))

\* a dispute row may carry an amount of its own, which is not the deposit's
DisputeAmounts == {None, Some(5)}

NextAccount ==
    \/ AccountDeposit(MaxAccountSteps)
    \/ AccountWithdrawal(MaxAccountSteps)
    \/ AccountDispute(MaxAccountSteps, DisputeAmounts)
    \/ AccountResolve(MaxAccountSteps)
    \/ AccountChargeback(MaxAccountSteps)

SpecAccount == Init /\ [][NextAccount]_vars

\* the same stream, one transaction longer, its dispute rows without amounts
NextDeep ==
    \/ AccountDeposit(MaxDeepSteps)
    \/ AccountWithdrawal(MaxDeepSteps)
    \/ AccountDispute(MaxDeepSteps, {None})
    \/ AccountResolve(MaxDeepSteps)
    \/ AccountChargeback(MaxDeepSteps)

SpecDeep == Init /\ [][NextDeep]_vars

(***************************************************************************)
(* The run over the records of the unit tests test_normal_dispute,         *)
(* test_resolve, test_chargeback and test_overwithdrawal, in any order.    *)
(***************************************************************************)
TestTransactions ==
    { Transaction(DEPOSIT, 1, 1, Some(5)),
      Transaction(DEPOSIT, 1, 2, Some(10)),
      Transaction(DEPOSIT, 1, 3, Some(5)),
      Transaction(DISPUTE, 1, 4, None),
      Transaction(DISPUTE, 1, 2, None),
      Transaction(RESOLVE, 1, 3, Some(5)),
      Transaction(RESOLVE, 1, 2, None),
      Transaction(CHARGEBACK, 1, 2, None),
      Transaction(WITHDRAWAL, 1, 1, Some(20)) }

TestCall ==
    /\ processed < MaxTestSteps
    /\ \E t \in TestTransactions : Step(t)

SpecTests == Init /\ [][TestCall]_vars

(***************************************************************************)
(* What the claims speak of.                                               *)
(***************************************************************************)
Accounts == account_map.accounts
AcceptedLog == account_map.total_transaction_log
RejectedLog == account_map.total_error_transaction_log

\* the last call returned, and this is its transaction
LastTx == unwrap(last.transaction)
Returned == last.kind \in {"Ok", "Err"}
LastIs(ty) == Returned /\ LastTx.transaction_type = ty

\* the account of client c before the last call, where it had one
Had(c) == c \in DOMAIN prev.accounts
Before(c) == prev.accounts[c]
Has(c) == c \in DOMAIN Accounts
Now(c) == Accounts[c]

Logged(log, ty, tx) ==
    \E i \in 1..Len(log) : log[i].transaction_type = ty /\ log[i].tx = tx

\* the amount of the earliest Deposit with this tx in the log
DepositAmount(log, tx) ==
    LET i == CHOOSE k \in 1..Len(log) :
                /\ log[k].transaction_type = DEPOSIT /\ log[k].tx = tx
                /\ \A j \in 1..(k - 1) :
                      ~(log[j].transaction_type = DEPOSIT /\ log[j].tx = tx)
    IN  unwrap(log[i].amount)

\* the amount a history entry moves between or out of the balances
Moved(log, i) ==
    IF IsMoney(log[i]) THEN unwrap(log[i].amount)
    ELSE IF Logged(log, DEPOSIT, log[i].tx) THEN DepositAmount(log, log[i].tx)
    ELSE 0

RECURSIVE SumMoved(_, _)
SumMoved(log, n) == IF n = 0 THEN 0 ELSE Moved(log, n) + SumMoved(log, n - 1)

\* no balance the account has had reached 2^24: every operation on it was exact
NeverRounded(acc) ==
    SumMoved(acc.transaction_log, Len(acc.transaction_log)) < F32Exact

Balanced(acc) == acc.total = acc.amount_available + acc.amount_held

\* the last call (returned or aborted) was for a transaction of this type
Called(ty) == last.transaction # None /\ LastTx.transaction_type = ty

\* an account nothing has happened to
ZeroAccount(c) ==
    [id |-> c, transaction_log |-> << >>, amount_available |-> 0,
     amount_held |-> 0, total |-> 0, locked |-> FALSE]

\* the account the last call found: the client's, or a new one
Old == IF Had(LastTx.client) THEN Before(LastTx.client)
       ELSE ZeroAccount(LastTx.client)

\* the client's account after the last call
New == Now(LastTx.client)

Accepted ==
    /\ last.kind = "Ok"
    /\ AcceptedLog = Append(prev.total_transaction_log, LastTx)
    /\ RejectedLog = prev.total_error_transaction_log

Rejected(msg) ==
    /\ last.kind = "Err"
    /\ last.msg = msg
    /\ RejectedLog = Append(prev.total_error_transaction_log, LastTx)
    /\ AcceptedLog = prev.total_transaction_log

SameBalances(a, b) ==
    /\ a.amount_available = b.amount_available
    /\ a.amount_held = b.amount_held
    /\ a.total = b.total

(***************************************************************************)
(* C1.  As claimed: in every reachable state every account has             *)
(* total = available + held.  The sum is taken as the program would take   *)
(* it, in f32; where this fails the exact sum differs from total as well.  *)
(***************************************************************************)
C1_TotalIsAvailablePlusHeld ==
    \A c \in DOMAIN Accounts :
        Now(c).total = F32Add(Now(c).amount_available, Now(c).amount_held)

\* C1, amended: every account whose balances never left the range where f32
\* is exact (integer amounts that sum to less than 2^24 over its history) has
\* total = available + held.
C1_BalancedWhileExact ==
    \A c \in DOMAIN Accounts : NeverRounded(Now(c)) => Balanced(Now(c))

\* an account with funds available and funds held after a dispute, all exact
C1_Witness ==
    \E c \in DOMAIN Accounts :
        /\ NeverRounded(Now(c))
        /\ Now(c).amount_held > 0
        /\ Now(c).amount_available > 0

(***************************************************************************)
(* C2.  Every transaction handed to the ledger whose call returns ends up  *)
(* in exactly one of the two logs: the lengths of the logs add up to the   *)
(* number of calls, and each call appends its transaction to one log and   *)
(* leaves the other as it was.                                             *)
(***************************************************************************)
AppendedTo(log, before, t) == log = Append(before, t)

C2_LogsCountCalls ==
    Len(AcceptedLog) + Len(RejectedLog) = processed

C2_OneLogPerCall ==
    Returned =>
        \/ /\ AppendedTo(AcceptedLog, prev.total_transaction_log, LastTx)
           /\ RejectedLog = prev.total_error_transaction_log
        \/ /\ AppendedTo(RejectedLog, prev.total_error_transaction_log, LastTx)
           /\ AcceptedLog = prev.total_transaction_log

C2_ExactlyOneLog == C2_LogsCountCalls /\ C2_OneLogPerCall

\* both logs have grown, the rejected one last
C2_Witness ==
    /\ Len(AcceptedLog) > 0
    /\ Len(RejectedLog) > 0
    /\ last.kind = "Err"
    /\ processed = MaxSteps

(***************************************************************************)
(* C3.  A Chargeback for tx on an unlocked account whose history holds a   *)
(* Dispute for tx, and whose held funds cover the amount a of the deposit  *)
(* the dispute is about, takes a off held and off total, locks the         *)
(* account, leaves available alone and is appended to the history; and the *)
(* stream of test_chargeback ends with available 10, held 0, total 10,     *)
(* locked.                                                                 *)
(***************************************************************************)
C3_Rule ==
    ( /\ Called(CHARGEBACK)
      /\ ~Old.locked
      /\ Logged(Old.transaction_log, DISPUTE, LastTx.tx)
      /\ Old.amount_held >= DepositAmount(Old.transaction_log, LastTx.tx) )
    => /\ last.kind = "Ok"
       /\ Has(LastTx.client)
       /\ New.amount_held =
            F32Sub(Old.amount_held, DepositAmount(Old.transaction_log, LastTx.tx))
       /\ New.total =
            F32Sub(Old.total, DepositAmount(Old.transaction_log, LastTx.tx))
       /\ New.locked = TRUE
       /\ New.amount_available = Old.amount_available
       /\ New.transaction_log = Append(Old.transaction_log, LastTx)

ChargebackScenario ==
    << Transaction(DEPOSIT, 1, 1, Some(5)),
       Transaction(DEPOSIT, 1, 2, Some(10)),
       Transaction(DEPOSIT, 1, 3, Some(5)),
       Transaction(DISPUTE, 1, 2, None),
       Transaction(CHARGEBACK, 1, 2, None) >>

ScenarioRan == AcceptedLog = ChargebackScenario /\ RejectedLog = << >>

C3_Scenario ==
    ScenarioRan =>
        /\ Has(1)
        /\ Now(1).amount_available = 10
        /\ Now(1).amount_held = 0
        /\ Now(1).total = 10
        /\ Now(1).locked = TRUE

C3_Chargeback == C3_Rule /\ C3_Scenario

\* the end of the scenario
C3_Witness == ScenarioRan /\ processed = 5 /\ Called(CHARGEBACK)

(***************************************************************************)
(* C4.  Once an account is locked it stays locked: every later transaction *)
(* of its client, whatever its type, is rejected with the account-locked   *)
(* error and goes to the rejected log, and the account (balances, lock,    *)
(* history) is never changed again.                                        *)
(***************************************************************************)
C4_LockedForever ==
    /\ \A c \in DOMAIN prev.accounts :
          Before(c).locked => Has(c) /\ Now(c) = Before(c)
    /\ (last.transaction # None /\ Old.locked)
          => Rejected(ERR_LOCKED) /\ Accounts = prev.accounts

\* a chargeback that names no dispute, rejected because the account is locked
C4_Witness ==
    /\ Called(CHARGEBACK)
    /\ Old.locked
    /\ ~Logged(Old.transaction_log, DISPUTE, LastTx.tx)
    /\ last.msg = ERR_LOCKED

(***************************************************************************)
(* C5.  A Dispute for tx on an unlocked account whose history holds a      *)
(* Deposit with that tx, of amount a, takes a off available, adds a to     *)
(* held, and leaves total and the lock alone; a is the logged deposit's    *)
(* amount, whatever amount the dispute record carries.                     *)
(***************************************************************************)
C5_Dispute ==
    ( /\ Called(DISPUTE)
      /\ ~Old.locked
      /\ Logged(Old.transaction_log, DEPOSIT, LastTx.tx) )
    => /\ last.kind = "Ok"
       /\ Has(LastTx.client)
       /\ New.amount_available =
            F32Sub(Old.amount_available,
                   DepositAmount(Old.transaction_log, LastTx.tx))
       /\ New.amount_held =
            F32Add(Old.amount_held, DepositAmount(Old.transaction_log, LastTx.tx))
       /\ New.total = Old.total
       /\ New.locked = FALSE

\* a dispute record that carries an amount other than the deposit's
C5_Witness ==
    /\ Called(DISPUTE)
    /\ ~Old.locked
    /\ Logged(Old.transaction_log, DEPOSIT, LastTx.tx)
    /\ LastTx.amount # None
    /\ LastTx.amount # Some(DepositAmount(Old.transaction_log, LastTx.tx))
    /\ New.amount_held > 0

(***************************************************************************)
(* C6.  As claimed: a Dispute for a tx the account has no Deposit for      *)
(* leaves the balances and the history of every account as they were and   *)
(* is appended to the accepted log, not the rejected one.                  *)
(***************************************************************************)
NeverDeposited ==
    /\ Called(DISPUTE)
    /\ ~Logged(Old.transaction_log, DEPOSIT, LastTx.tx)

\* the client's account is as it was (a client without one gets one with zero
\* balances), and so is every other account
NothingMoved ==
    /\ DOMAIN Accounts = DOMAIN prev.accounts \cup {LastTx.client}
    /\ New = Old
    /\ \A c \in DOMAIN prev.accounts :
          c # LastTx.client => Now(c) = Before(c)

C6_DisputeOfNothing == NeverDeposited => Accepted /\ NothingMoved

\* C6, amended: on an account that is not locked, such a Dispute leaves the
\* balances, the lock and the history of the account as they were, leaves
\* every other account alone, and is appended to the accepted log, not the
\* rejected one; on a locked account it is rejected as C4 says.
C6_DisputeOfNothingUnlocked ==
    /\ (NeverDeposited /\ ~Old.locked) => Accepted /\ NothingMoved
    /\ (NeverDeposited /\ Old.locked) => Rejected(ERR_LOCKED) /\ NothingMoved

\* the dispute names a withdrawal of an account with funds
C6_Witness ==
    /\ NeverDeposited
    /\ ~Old.locked
    /\ Logged(Old.transaction_log, WITHDRAWAL, LastTx.tx)
    /\ Old.total > 0

(***************************************************************************)
(* C7.  As claimed: when a Dispute of a logged Deposit on an unlocked      *)
(* account is followed by the Resolve for the same tx, available, held and *)
(* total are back at their values before the Dispute; and a Resolve for a  *)
(* tx the history has no Dispute for (a Deposit with that tx or not)       *)
(* leaves balances and history alone.                                      *)
(***************************************************************************)
DisputeTaken ==
    /\ Called(DISPUTE)
    /\ last.kind = "Ok"
    /\ ~Old.locked
    /\ Logged(Old.transaction_log, DEPOSIT, LastTx.tx)

\* the next call is the Resolve to the Dispute that was the last call
ResolveFollows ==
    /\ last'.transaction # None
    /\ unwrap(last'.transaction).transaction_type = RESOLVE
    /\ unwrap(last'.transaction).client = LastTx.client
    /\ unwrap(last'.transaction).tx = LastTx.tx

RoundTrip ==
    /\ last'.kind = "Ok"
    /\ LastTx.client \in DOMAIN account_map'.accounts
    /\ SameBalances(account_map'.accounts[LastTx.client], Old)

ResolveOfNothing ==
    ( /\ Called(RESOLVE)
      /\ ~Logged(Old.transaction_log, DISPUTE, LastTx.tx) )
    => /\ Returned
       /\ ~Old.locked => last.kind = "Ok"
       /\ Has(LastTx.client) =>
             /\ SameBalances(New, Old)
             /\ New.transaction_log = Old.transaction_log

C7_ResolveReverses ==
    [][ /\ (DisputeTaken /\ ResolveFollows) => RoundTrip
        /\ ResolveOfNothing' ]_vars

\* C7, amended: the balances are back at their values before the Dispute when
\* the amounts the account's history has moved, the Dispute's included, sum to
\* less than 2^24, so that no f32 operation rounded; the Resolve of nothing is
\* as claimed.
C7_ResolveReversesWhileExact ==
    [][ /\ (DisputeTaken /\ NeverRounded(New) /\ ResolveFollows) => RoundTrip
        /\ ResolveOfNothing' ]_vars

\* a Resolve right after its Dispute, with funds that came back
C7_Witness ==
    /\ Called(RESOLVE)
    /\ last.kind = "Ok"
    /\ Len(Old.transaction_log) > 0
    /\ Old.transaction_log[Len(Old.transaction_log)].transaction_type = DISPUTE
    /\ Old.transaction_log[Len(Old.transaction_log)].tx = LastTx.tx
    /\ NeverRounded(Old)
    /\ New.amount_available > Old.amount_available
    /\ New.amount_held = 0

(***************************************************************************)
(* C8.  A Chargeback for a tx the account (not locked) has no Dispute for  *)
(* is rejected with the no-dispute error: the accounts are as they were,   *)
(* the account is still unlocked, and the Chargeback is in the rejected    *)
(* log.                                                                    *)
(***************************************************************************)
C8_ChargebackOfNothing ==
    ( /\ Called(CHARGEBACK)
      /\ ~Old.locked
      /\ ~Logged(Old.transaction_log, DISPUTE, LastTx.tx) )
    => /\ Rejected(ERR_NO_DISPUTE)
       /\ Accounts = prev.accounts
       /\ Has(LastTx.client) => New.locked = FALSE

\* the chargeback names a deposit that is not under dispute
C8_Witness ==
    /\ Called(CHARGEBACK)
    /\ last.msg = ERR_NO_DISPUTE
    /\ Logged(Old.transaction_log, DEPOSIT, LastTx.tx)
    /\ Old.amount_held > 0

(***************************************************************************)
(* C9.  A Withdrawal of amount a on an unlocked account is rejected for    *)
(* insufficient funds exactly when a > available, whatever is held, and    *)
(* then nothing changes; otherwise, a = available included, it takes a off *)
(* available and off total and leaves held alone.                          *)
(***************************************************************************)
C9_Withdrawal ==
    ( /\ Called(WITHDRAWAL)
      /\ LastTx.amount # None
      /\ ~Old.locked )
    => IF unwrap(LastTx.amount) > Old.amount_available
       THEN Rejected(ERR_FUNDS) /\ Accounts = prev.accounts
       ELSE /\ Accepted
            /\ Has(LastTx.client)
            /\ New.amount_available =
                 F32Sub(Old.amount_available, unwrap(LastTx.amount))
            /\ New.total = F32Sub(Old.total, unwrap(LastTx.amount))
            /\ New.amount_held = Old.amount_held

\* rejected although available and held together would cover the amount
C9_Witness ==
    /\ Called(WITHDRAWAL)
    /\ last.msg = ERR_FUNDS
    /\ Old.amount_held > 0
    /\ unwrap(LastTx.amount) <= Old.amount_available + Old.amount_held

(***************************************************************************)
(* C10.  While the stream has held only Deposits and Withdrawals, every    *)
(* account has total = available + held and held = 0.                      *)
(***************************************************************************)
OnlyMoney(log) == \A i \in 1..Len(log) : IsMoney(log[i])

C10_MoneyOnly ==
    (OnlyMoney(AcceptedLog) /\ OnlyMoney(RejectedLog))
    => \A c \in DOMAIN Accounts :
          Balanced(Now(c)) /\ Now(c).amount_held = 0

\* deposits that f32 rounded, then a withdrawal
C10_Witness ==
    /\ OnlyMoney(AcceptedLog) /\ OnlyMoney(RejectedLog)
    /\ Called(WITHDRAWAL) /\ last.kind = "Ok"
    /\ Old.total > F32Exact

(***************************************************************************)
(* C11.  A rule violation (account locked, insufficient funds, no dispute  *)
(* found, insufficient held funds) never aborts the run: the transaction   *)
(* is appended to the rejected log, the accounts and the accepted log are  *)
(* as before the call, and the next transaction is processed against that  *)
(* unchanged state.                                                        *)
(***************************************************************************)
RuleViolations == {ERR_LOCKED, ERR_FUNDS, ERR_NO_DISPUTE, ERR_HELD}

ViolationRecorded ==
    last.kind = "Err" =>
        /\ ~panicked
        /\ last.msg \in RuleViolations
        /\ Rejected(last.msg)
        /\ Accounts = prev.accounts

\* the call after a rejected one starts from the accounts and the accepted log
\* the rejected one started from
ViolationPassed ==
    last.kind = "Err" =>
        /\ prev'.accounts = prev.accounts
        /\ prev'.total_transaction_log = prev.total_transaction_log
        /\ last'.transaction # None

C11_ViolationsDoNotAbort == [][ViolationRecorded' /\ ViolationPassed]_vars

\* a deposit accepted after a chargeback was rejected for held funds that a
\* resolve had released
C11_Witness ==
    /\ Called(DEPOSIT)
    /\ last.kind = "Ok"
    /\ Len(RejectedLog) = 1
    /\ RejectedLog[1].transaction_type = CHARGEBACK
    /\ Logged(Old.transaction_log, RESOLVE, RejectedLog[1].tx)
    /\ ~Old.locked

(***************************************************************************)
(* C12.  Disputes across clients are ignored: a Dispute, Resolve or        *)
(* Chargeback of client B whose tx names a Deposit or a Dispute that only  *)
(* the history of another client A holds changes neither balances, lock    *)
(* nor history of A, and moves no funds in B.                              *)
(***************************************************************************)
Antecedent(log, tx) == Logged(log, DEPOSIT, tx) \/ Logged(log, DISPUTE, tx)

\* the last call is of a client whose history does not hold what its tx names,
\* while another client's does
AcrossClients ==
    /\ last.transaction # None
    /\ LastTx.transaction_type \in {DISPUTE, RESOLVE, CHARGEBACK}
    /\ ~Antecedent(Old.transaction_log, LastTx.tx)
    /\ \E a \in DOMAIN prev.accounts :
          /\ a # LastTx.client
          /\ Antecedent(Before(a).transaction_log, LastTx.tx)

C12_AcrossClientsIgnored ==
    AcrossClients =>
        /\ Returned
        /\ \A a \in DOMAIN prev.accounts :
              a # LastTx.client => Has(a) /\ Now(a) = Before(a)
        /\ Has(LastTx.client) => New = Old

\* client B, with funds of its own, disputes a deposit of client A
C12_Witness ==
    /\ AcrossClients
    /\ Called(DISPUTE)
    /\ last.kind = "Ok"
    /\ Old.amount_available > 0
    /\ \E a \in DOMAIN prev.accounts :
          /\ a # LastTx.client
          /\ Logged(Before(a).transaction_log, DEPOSIT, LastTx.tx)

(***************************************************************************)
(* C13.  An account is created, with zero balances and unlocked, the first *)
(* time its id is referenced: once the ledger has processed a transaction  *)
(* of client c, accepted or rejected, the accounts hold an account for c.  *)
(***************************************************************************)
Clients(log) == {log[i].client : i \in 1..Len(log)}

C13_AccountExists ==
    \A c \in Clients(AcceptedLog) \cup Clients(RejectedLog) : Has(c)

(***************************************************************************)
(* C14.  The history of each account is, in order, what the accepted log   *)
(* holds for its client less the Disputes and Resolves that found no       *)
(* target: every other accepted transaction is appended to the end of the  *)
(* history, the no-ops are in the accepted log only, and a rejected        *)
(* transaction adds nothing to any history.                                *)
(***************************************************************************)
\* a Dispute or Resolve that finds no target in the history so far
NoOp(history, t) ==
    \/ t.transaction_type = DISPUTE /\ ~Logged(history, DEPOSIT, t.tx)
    \/ t.transaction_type = RESOLVE /\ ~Logged(history, DISPUTE, t.tx)

\* the history the first n entries of the accepted log make for client c
RECURSIVE Effective(_, _, _)
Effective(log, c, n) ==
    IF n = 0 THEN << >>
    ELSE IF log[n].client # c \/ NoOp(Effective(log, c, n - 1), log[n])
         THEN Effective(log, c, n - 1)
    ELSE Append(Effective(log, c, n - 1), log[n])

HistoryOf(c) == IF Has(c) THEN Now(c).transaction_log ELSE << >>

CountOf(log, c) == Cardinality({i \in 1..Len(log) : log[i].client = c})

C14_HistoryIsAcceptedLessNoOps ==
    /\ \A c \in ClientIds :
          HistoryOf(c) = Effective(AcceptedLog, c, Len(AcceptedLog))
    /\ last.kind = "Err" => Accounts = prev.accounts
    /\ (last.kind = "Ok" /\ ~NoOp(Old.transaction_log, LastTx))
          => Has(LastTx.client)
             /\ New.transaction_log = Append(Old.transaction_log, LastTx)
    /\ (last.kind = "Ok" /\ NoOp(Old.transaction_log, LastTx))
          => Has(LastTx.client) /\ New.transaction_log = Old.transaction_log

\* an account with a dispute in its history and a no-op in the accepted log
C14_Witness ==
    \E c \in DOMAIN Accounts :
        /\ Logged(HistoryOf(c), DISPUTE, 1)
        /\ Len(HistoryOf(c)) < CountOf(AcceptedLog, c)

(***************************************************************************)
(* C15.  A Deposit of amount a on an unlocked account is never rejected:   *)
(* it adds a to available and to total and leaves held and the lock alone. *)
(***************************************************************************)
C15_Deposit ==
    ( /\ Called(DEPOSIT)
      /\ LastTx.amount # None
      /\ ~Old.locked )
    => /\ Accepted
       /\ Has(LastTx.client)
       /\ New.amount_available =
            F32Add(Old.amount_available, unwrap(LastTx.amount))
       /\ New.total = F32Add(Old.total, unwrap(LastTx.amount))
       /\ New.amount_held = Old.amount_held
       /\ New.locked = FALSE

\* a deposit into an account with funds under dispute
C15_Witness ==
    /\ Called(DEPOSIT)
    /\ last.kind = "Ok"
    /\ Old.amount_held > 0
    /\ New.total > Old.total

(***************************************************************************)
(* C16.  Only Deposits can be disputed: a Dispute whose tx the history     *)
(* holds as a Withdrawal only, with no Deposit of that tx, changes no      *)
(* balance and is not appended to the history; and a Resolve or Chargeback *)
(* matches a logged Dispute only, never a Deposit or Withdrawal with its   *)
(* tx.                                                                     *)
(***************************************************************************)
MoneyOnly(log, tx) ==
    /\ Logged(log, DEPOSIT, tx) \/ Logged(log, WITHDRAWAL, tx)
    /\ ~Logged(log, DISPUTE, tx)

C16_OnlyDepositsDisputed ==
    /\ ( /\ Called(DISPUTE)
         /\ Logged(Old.transaction_log, WITHDRAWAL, LastTx.tx)
         /\ ~Logged(Old.transaction_log, DEPOSIT, LastTx.tx) )
       => /\ Returned
          /\ ~Old.locked => Accepted
          /\ Has(LastTx.client) /\ New = Old
    /\ (Called(RESOLVE) /\ MoneyOnly(Old.transaction_log, LastTx.tx))
       => /\ Returned
          /\ ~Old.locked => Accepted
          /\ Has(LastTx.client) /\ New = Old
    /\ (Called(CHARGEBACK) /\ MoneyOnly(Old.transaction_log, LastTx.tx))
       => /\ Rejected(IF Old.locked THEN ERR_LOCKED ELSE ERR_NO_DISPUTE)
          /\ Accounts = prev.accounts

\* the dispute of an accepted withdrawal
C16_Witness ==
    /\ Called(DISPUTE)
    /\ last.kind = "Ok"
    /\ Logged(Old.transaction_log, WITHDRAWAL, LastTx.tx)
    /\ ~Logged(Old.transaction_log, DEPOSIT, LastTx.tx)
    /\ Old.amount_available > 0

(***************************************************************************)
(* C17.  A Chargeback on an unlocked account whose Dispute is found but    *)
(* whose deposit's amount exceeds the held funds is rejected for           *)
(* insufficient held funds: the account stays unlocked, balances and       *)
(* history are as they were, and the Chargeback is in the rejected log.    *)
(***************************************************************************)
C17_ChargebackBeyondHeld ==
    ( /\ Called(CHARGEBACK)
      /\ ~Old.locked
      /\ Logged(Old.transaction_log, DISPUTE, LastTx.tx)
      /\ DepositAmount(Old.transaction_log, LastTx.tx) > Old.amount_held )
    => /\ Rejected(ERR_HELD)
       /\ Accounts = prev.accounts
       /\ Has(LastTx.client)
       /\ New.locked = FALSE

\* the chargeback of a dispute that a resolve has released
C17_Witness ==
    /\ Called(CHARGEBACK)
    /\ last.msg = ERR_HELD
    /\ Logged(Old.transaction_log, RESOLVE, LastTx.tx)
    /\ Old.amount_available > 0

(***************************************************************************)
(* C18.  Routing never misroutes: every transaction is applied to the      *)
(* account whose id is the transaction's client, so the client check of    *)
(* Account::add_transaction never panics, and every entry k of the         *)
(* accounts has id k.                                                      *)
(***************************************************************************)
\* the account the last call was applied to
Routed == lookup_account(prev, LastTx.client)

C18_RoutedToOwnAccount ==
    /\ ~panicked
    /\ last.transaction # None => Routed.id = LastTx.client /\ Returned
    /\ \A k \in DOMAIN Accounts :
          /\ Now(k).id = k
          /\ \A i \in 1..Len(Now(k).transaction_log) :
                Now(k).transaction_log[i].client = k

\* both clients have an account with a history
C18_Witness ==
    /\ DOMAIN Accounts = ClientIds
    /\ \A k \in DOMAIN Accounts : Now(k).transaction_log # << >>
    /\ processed = MaxSteps

(***************************************************************************)
(* C19.  In every history, a Dispute entry comes after a Deposit with its  *)
(* tx and a Resolve or Chargeback entry comes after a Dispute with its tx; *)
(* so the unwrap of the second lookup in the Chargeback and Resolve arms   *)
(* never fails.                                                            *)
(***************************************************************************)
\* entry i of the log has an entry of type ty with the same tx before it
Preceded(log, i, ty) ==
    \E j \in 1..(i - 1) : log[j].transaction_type = ty /\ log[j].tx = log[i].tx

WellFounded(log) ==
    \A i \in 1..Len(log) :
        /\ log[i].transaction_type = DISPUTE => Preceded(log, i, DEPOSIT)
        /\ log[i].transaction_type \in {RESOLVE, CHARGEBACK}
              => Preceded(log, i, DISPUTE)
        /\ log[i].transaction_type = DEPOSIT => log[i].amount # None

C19_AntecedentsLogged ==
    /\ \A c \in DOMAIN Accounts : WellFounded(Now(c).transaction_log)
    /\ (Called(RESOLVE) \/ Called(CHARGEBACK)) => Returned

\* a chargeback taken after two deposits and a dispute
C19_Witness ==
    /\ Called(CHARGEBACK)
    /\ last.kind = "Ok"
    /\ Len(New.transaction_log) = 4
    /\ New.transaction_log[3].transaction_type = DISPUTE

(***************************************************************************)
(* C20.  In a stream with non-negative amounts and unique Deposit and      *)
(* Withdrawal tx ids, the held amount of every account is never negative:  *)
(* held is what the open disputes have earmarked.                          *)
(***************************************************************************)
C20_HeldNeverNegative ==
    \A c \in DOMAIN Accounts : Now(c).amount_held >= 0

(***************************************************************************)
(* C21.  A dispute is closed by exactly one of Resolve or Chargeback: once *)
(* a Resolve for tx has been applied, a later Resolve or Chargeback for tx *)
(* with no new Dispute in between changes no balance and does not lock the *)
(* account; and a second Dispute for a tx that is under dispute does not   *)
(* hold the deposit's amount a second time.                                *)
(***************************************************************************)
\* the history holds a Resolve for tx and no Dispute for tx after it
Resolved(log, tx) ==
    \E i \in 1..Len(log) :
        /\ log[i].transaction_type = RESOLVE /\ log[i].tx = tx
        /\ \A j \in (i + 1)..Len(log) :
              ~(log[j].transaction_type = DISPUTE /\ log[j].tx = tx)

\* the history holds a Dispute for tx and no Resolve or Chargeback after it
UnderDispute(log, tx) ==
    \E i \in 1..Len(log) :
        /\ log[i].transaction_type = DISPUTE /\ log[i].tx = tx
        /\ \A j \in (i + 1)..Len(log) :
              ~(log[j].transaction_type \in {RESOLVE, CHARGEBACK}
                /\ log[j].tx = tx)

ResolveClosed ==
    ( /\ Called(RESOLVE) \/ Called(CHARGEBACK)
      /\ Resolved(Old.transaction_log, LastTx.tx) )
    => /\ Returned
       /\ Has(LastTx.client)
       /\ SameBalances(New, Old)
       /\ New.locked = Old.locked

DisputeHeldOnce ==
    ( /\ Called(DISPUTE)
      /\ UnderDispute(Old.transaction_log, LastTx.tx) )
    => /\ Returned
       /\ Has(LastTx.client)
       /\ New.amount_held = Old.amount_held

C21_ClosedByExactlyOne == ResolveClosed /\ DisputeHeldOnce

(***************************************************************************)
(* C22.  Accounts are isolated: a transaction of client c leaves the       *)
(* account of every other client as it was, so each account is what the    *)
(* transactions of its own client, in their order, make of it, and two     *)
(* interleavings of the same per-client sequences give the same accounts.  *)
(***************************************************************************)
OthersUntouched ==
    last.transaction # None =>
        /\ DOMAIN Accounts \subseteq DOMAIN prev.accounts \cup {LastTx.client}
        /\ \A a \in DOMAIN prev.accounts :
              a # LastTx.client => Has(a) /\ Now(a) = Before(a)

\* the ledger that the first n accepted transactions make when only those of
\* client c are processed
RECURSIVE Alone(_, _, _)
Alone(log, c, n) ==
    IF n = 0 THEN AccountMap_new
    ELSE IF log[n].client # c THEN Alone(log, c, n - 1)
    ELSE log_transaction(Some(Alone(log, c, n - 1)), log[n]).map

OwnTransactionsOnly ==
    \A c \in ClientIds :
        \E alone \in {Alone(AcceptedLog, c, Len(AcceptedLog))} :
            /\ alone.total_error_transaction_log = << >>
            /\ DOMAIN alone.accounts = DOMAIN Accounts \cap {c}
            /\ Has(c) => alone.accounts[c] = Now(c)

\* the records the stream may hold
StreamTransactions ==
    {Transaction(ty, c, tx, a) :
        ty \in {DEPOSIT, WITHDRAWAL}, c \in ClientIds, tx \in TxIds,
        a \in StreamAmounts}
    \cup {Transaction(ty, c, tx, None) :
        ty \in {DISPUTE, RESOLVE, CHARGEBACK}, c \in ClientIds, tx \in TxIds}

Both(map, t, u) ==
    log_transaction(Some(log_transaction(Some(map), t).map), u).map

\* two adjacent transactions of different clients, both within the length of
\* the stream, may change places
Interleavable ==
    processed + 2 <= MaxSteps =>
        \A t \in StreamTransactions, u \in StreamTransactions :
            t.client < u.client =>
                Both(account_map, t, u).accounts
                    = Both(account_map, u, t).accounts

C22_AccountsIsolated ==
    OthersUntouched /\ OwnTransactionsOnly /\ Interleavable

\* a transaction of one client is accepted while another client has funds
C22_Witness ==
    /\ last.kind = "Ok"
    /\ New.total > 0
    /\ \E a \in DOMAIN prev.accounts :
          a # LastTx.client /\ Before(a).amount_held > 0

(***************************************************************************)
(* C23.  An account is locked if and only if its history holds a           *)
(* Chargeback; a history holds at most one Chargeback, and that one is its *)
(* last entry.                                                             *)
(***************************************************************************)
Chargebacks(log) ==
    {i \in 1..Len(log) : log[i].transaction_type = CHARGEBACK}

C23_LockedIffChargeback ==
    \A c \in DOMAIN Accounts :
        /\ Now(c).locked = (Chargebacks(Now(c).transaction_log) # {})
        /\ Chargebacks(Now(c).transaction_log)
              \subseteq {Len(Now(c).transaction_log)}

\* a deposit turned away by an account that a chargeback has locked
C23_Witness ==
    /\ Called(DEPOSIT)
    /\ last.msg = ERR_LOCKED
    /\ Has(LastTx.client)
    /\ New.locked
    /\ Len(New.transaction_log) >= 3

=============================================================================
